---------------------------- MODULE Spec2Model ----------------------------
(***************************************************************************)
(* Story evaluator: response parsing and score aggregation.                *)
(*                                                                         *)
(* Two variants of the evaluator live in the repository:                   *)
(*   "v10"  src/evaluation.py      scores 1.0-10.0, per-category calls     *)
(*   "v20"  src/src/evaluation.py  scores 0.0-20.0, one combined call      *)
(*                                                                         *)
(* Response texts are TLA+ strings, read character by character with       *)
(* SubSeq.  Python floats are modelled as exact decimals counted in        *)
(* hundredths (7.5 is 750), together with the special values NaN and       *)
(* +/-Infinity that json.loads and float() accept.                         *)
(***************************************************************************)
EXTENDS Integers, Sequences, FiniteSets, TLC

VARIABLES
    variant,    \* which evaluation.py is running: "v10" or "v20"
    pc,         \* position of the running operation
    op,         \* the operation that runs, or ran last
    args,       \* arguments of analyze_creativity_difference
    idx,        \* index of the category whose transport call is next
    results,    \* the dict under construction, in insertion order
    chat_log,   \* the transport calls of this operation, in order
    status,     \* "running", "returned" or "raised"
    exc,        \* the exception that ended the operation, or "none"
    ret,        \* the value the operation returned
    text,       \* ParseSpec: the response handed to parse_response
    parsed,     \* ParseSpec: what parse_response gave for it
    _dataset,       \* server.py: the module global _dataset
    dataset_file,   \* server.py: what the file at DATASET_PATH holds
    read_csv_calls, \* server.py: how often pd.read_csv has been called
    results_file,   \* server.py: the file at output_path
    full_run,       \* server.py: the locals of a running evaluate_full_dataset
    tool_ret        \* server.py: what the last dataset tool call gave

server_vars == <<_dataset, dataset_file, read_csv_calls, results_file,
                 full_run, tool_ret>>

vars == <<variant, pc, op, args, idx, results, chat_log, status, exc, ret,
          text, parsed, _dataset, dataset_file, read_csv_calls, results_file,
          full_run, tool_ret>>

(***************************************************************************)
(* Bounds of the model.                                                    *)
(***************************************************************************)
\* How many entries of each category list the model keeps.
NumCategories == 2

(***************************************************************************)
(* With(e, F) is F(e) with e evaluated once, as an assignment to a local   *)
(* does it.                                                                *)
(***************************************************************************)
With(e, F(_)) == CHOOSE y \in {F(x) : x \in {e}} : TRUE

(***************************************************************************)
(* Python str primitives.                                                  *)
(***************************************************************************)
\* s[i-1:j] of Python, counted from 1: indices outside s are cut off.
slice(s, i, j) ==
    LET a == IF i < 1 THEN 1 ELSE i
        b == IF j > Len(s) THEN Len(s) ELSE j
    IN  IF a > b THEN "" ELSE SubSeq(s, a, b)

\* The character at index i, "" outside s.
Ch(s, i) == slice(s, i, i)

Digits == {"0", "1", "2", "3", "4", "5", "6", "7", "8", "9"}

IsDigit(c) == c \in Digits

DigitVal(c) ==
    CASE c = "0" -> 0 [] c = "1" -> 1 [] c = "2" -> 2 [] c = "3" -> 3
      [] c = "4" -> 4 [] c = "5" -> 5 [] c = "6" -> 6 [] c = "7" -> 7
      [] c = "8" -> 8 [] c = "9" -> 9 [] OTHER -> 0

\* The characters str.strip() removes (ASCII part).
PyWhitespace == {" ", "\t", "\n", "\r", "\f"}

RECURSIVE LStripFrom(_, _)
LStripFrom(s, i) ==
    IF i <= Len(s) /\ Ch(s, i) \in PyWhitespace THEN LStripFrom(s, i + 1) ELSE i

RECURSIVE RStripTo(_, _)
RStripTo(s, j) ==
    IF j >= 1 /\ Ch(s, j) \in PyWhitespace THEN RStripTo(s, j - 1) ELSE j

\* str.strip()
strip(s) ==
    LET i == LStripFrom(s, 1)
        j == RStripTo(s, Len(s))
    IN  IF i > j THEN "" ELSE slice(s, i, j)

startswith(s, p) == Len(s) >= Len(p) /\ slice(s, 1, Len(p)) = p

endswith(s, p) ==
    Len(s) >= Len(p) /\ slice(s, Len(s) - Len(p) + 1, Len(s)) = p

\* str.find(sub) + 1 from position i: the first index at which sub occurs,
\* 0 when it does not.
RECURSIVE FindFrom(_, _, _)
FindFrom(s, sub, i) ==
    IF i + Len(sub) - 1 > Len(s) THEN 0
    ELSE IF slice(s, i, i + Len(sub) - 1) = sub THEN i
    ELSE FindFrom(s, sub, i + 1)

find(s, sub) == FindFrom(s, sub, 1)

\* sub in s
contains(s, sub) == find(s, sub) # 0

\* s.replace(old, new, 1): the first occurrence of old, counted from the
\* left of s, is replaced.
replace_once(s, old, new) ==
    LET i == find(s, old)
    IN  IF i = 0 THEN s
        ELSE slice(s, 1, i - 1) \o new \o slice(s, i + Len(old), Len(s))

RECURSIVE replace_all(_, _, _)
\* s.replace(old, new) for a non-empty old
replace_all(s, old, new) ==
    LET i == find(s, old)
    IN  IF i = 0 \/ Len(old) = 0 THEN s
        ELSE slice(s, 1, i - 1) \o new
                 \o replace_all(slice(s, i + Len(old), Len(s)), old, new)

LowerOf(c) ==
    CASE c = "A" -> "a" [] c = "B" -> "b" [] c = "C" -> "c" [] c = "D" -> "d"
      [] c = "E" -> "e" [] c = "F" -> "f" [] c = "G" -> "g" [] c = "H" -> "h"
      [] c = "I" -> "i" [] c = "J" -> "j" [] c = "K" -> "k" [] c = "L" -> "l"
      [] c = "M" -> "m" [] c = "N" -> "n" [] c = "O" -> "o" [] c = "P" -> "p"
      [] c = "Q" -> "q" [] c = "R" -> "r" [] c = "S" -> "s" [] c = "T" -> "t"
      [] c = "U" -> "u" [] c = "V" -> "v" [] c = "W" -> "w" [] c = "X" -> "x"
      [] c = "Y" -> "y" [] c = "Z" -> "z" [] OTHER -> c

RECURSIVE lower(_)
\* str.lower()
lower(s) == IF s = "" THEN "" ELSE LowerOf(Ch(s, 1)) \o lower(slice(s, 2, Len(s)))

(***************************************************************************)
(* Python floats: finite values in hundredths, NaN, +/-Infinity, and None. *)
(***************************************************************************)
Fin(h) == [k |-> "fin", v |-> h]
NaN == [k |-> "nan", v |-> 0]
Inf(sign) == [k |-> "inf", v |-> sign]
None == [k |-> "none", v |-> 0]

\* a < b on floats: every comparison with NaN is false.
FLt(a, b) ==
    CASE a.k = "nan" \/ b.k = "nan" -> FALSE
      [] a.k = "inf" /\ b.k = "inf" -> a.v < b.v
      [] a.k = "inf" -> a.v < 0
      [] b.k = "inf" -> b.v > 0
      [] OTHER -> a.v < b.v

\* a - b
FSub(a, b) ==
    CASE a.k = "nan" \/ b.k = "nan" -> NaN
      [] a.k = "inf" /\ b.k = "inf" -> IF a.v = b.v THEN NaN ELSE a
      [] a.k = "inf" -> a
      [] b.k = "inf" -> Inf(0 - b.v)
      [] OTHER -> Fin(a.v - b.v)

\* abs(a)
FAbs(a) ==
    CASE a.k = "inf" -> Inf(1)
      [] a.k = "fin" -> Fin(IF a.v < 0 THEN 0 - a.v ELSE a.v)
      [] OTHER -> a

\* round(a, 1): to the nearest tenth.  The inputs of the model never lie
\* halfway between two tenths.
FRound1(a) ==
    IF a.k = "fin" THEN Fin(((a.v + 5) \div 10) * 10) ELSE a

(***************************************************************************)
(* json.loads.  A JSON value is a record [t, n, s, items]:                 *)
(*   t = "null" | "bool" (n = 0, 1) | "int" (n) | "float" (n hundredths)   *)
(*     | "nan" | "inf" (n = sign) | "str" (s) | "list" (items)             *)
(*     | "obj" (items: <<[k, v], ...>> in the order of the text)           *)
(* The texts of the model use no exponent, no \u, \b or \f escape and at   *)
(* most two fractional digits.                                             *)
(***************************************************************************)
JNull == [t |-> "null", n |-> 0, s |-> "", items |-> <<>>]
JBool(b) == [t |-> "bool", n |-> IF b THEN 1 ELSE 0, s |-> "", items |-> <<>>]
JInt(n) == [t |-> "int", n |-> n, s |-> "", items |-> <<>>]
JFloat(h) == [t |-> "float", n |-> h, s |-> "", items |-> <<>>]
JNaN == [t |-> "nan", n |-> 0, s |-> "", items |-> <<>>]
JInf(sign) == [t |-> "inf", n |-> sign, s |-> "", items |-> <<>>]
JStr(str) == [t |-> "str", n |-> 0, s |-> str, items |-> <<>>]
JList(items) == [t |-> "list", n |-> 0, s |-> "", items |-> items]
JObj(items) == [t |-> "obj", n |-> 0, s |-> "", items |-> items]

\* A decoding step: ok, the value, and the index after it.
JFail == [ok |-> FALSE, v |-> JNull, pos |-> 0]
JOk(v, pos) == [ok |-> TRUE, v |-> v, pos |-> pos]

JsonWhitespace == {" ", "\t", "\n", "\r"}

RECURSIVE SkipWs(_, _)
SkipWs(s, i) ==
    IF i <= Len(s) /\ Ch(s, i) \in JsonWhitespace THEN SkipWs(s, i + 1) ELSE i

RECURSIVE DigitsEnd(_, _)
\* The index after the run of digits that starts at i.
DigitsEnd(s, i) ==
    IF i <= Len(s) /\ IsDigit(Ch(s, i)) THEN DigitsEnd(s, i + 1) ELSE i

RECURSIVE IntOf(_)
\* int() of a string of digits
IntOf(s) ==
    IF s = "" THEN 0
    ELSE IntOf(slice(s, 1, Len(s) - 1)) * 10 + DigitVal(Ch(s, Len(s)))

\* A fraction's digits as hundredths.
FracOf(s) ==
    (IF Len(s) >= 1 THEN DigitVal(Ch(s, 1)) * 10 ELSE 0)
        + (IF Len(s) >= 2 THEN DigitVal(Ch(s, 2)) ELSE 0)

\* NUMBER_RE of json.scanner: (-?(?:0|[1-9]\d*))(\.\d+)?
ScanNumber(s, i) ==
    With(i <= Len(s) /\ Ch(s, i) = "-", LAMBDA neg :
    With(IF neg THEN i + 1 ELSE i, LAMBDA j :
    With(IF j <= Len(s) /\ Ch(s, j) = "0" THEN j + 1 ELSE DigitsEnd(s, j),
         LAMBDA intEnd :
    With(/\ intEnd + 1 <= Len(s)
         /\ Ch(s, intEnd) = "."
         /\ IsDigit(Ch(s, intEnd + 1)), LAMBDA hasFrac :
    With(IF hasFrac THEN DigitsEnd(s, intEnd + 1) ELSE intEnd, LAMBDA fracEnd :
    With(IntOf(slice(s, j, intEnd - 1)), LAMBDA whole :
    With(whole * 100 + FracOf(slice(s, intEnd + 1, fracEnd - 1)), LAMBDA mag :
        IF intEnd = j THEN JFail
        ELSE IF hasFrac THEN JOk(JFloat(IF neg THEN 0 - mag ELSE mag), fracEnd)
        ELSE JOk(JInt(IF neg THEN 0 - whole ELSE whole), intEnd))))))))

RECURSIVE ChunkEnd(_, _, _)
\* STRINGCHUNK of json.decoder, (.*?)(["\\\x00-\x1f]): the first index of
\* lo..hi that holds a terminator, hi + 1 when none does.
ChunkEnd(s, lo, hi) ==
    IF lo > hi THEN lo
    ELSE IF lo = hi
         THEN IF Ch(s, lo) \in {"\"", "\\", "\n", "\t", "\r", "\f"} THEN lo ELSE lo + 1
    ELSE With(ChunkEnd(s, lo, (lo + hi) \div 2), LAMBDA first :
             IF first <= (lo + hi) \div 2 THEN first
             ELSE ChunkEnd(s, ((lo + hi) \div 2) + 1, hi))

RECURSIVE ScanString(_, _, _)
\* py_scanstring from the character after the opening quote; acc is the
\* decoded text so far.  A raw control character ends the decoding in error.
ScanString(s, i, acc) ==
    With(ChunkEnd(s, i, Len(s)), LAMBDA end :
    With(acc \o slice(s, i, end - 1), LAMBDA chunk :
        IF end > Len(s) THEN JFail
        ELSE IF Ch(s, end) = "\"" THEN JOk(JStr(chunk), end + 1)
        ELSE IF Ch(s, end) # "\\" THEN JFail
        ELSE IF end + 1 > Len(s) THEN JFail
        ELSE With(Ch(s, end + 1), LAMBDA esc :
             CASE esc = "\"" -> ScanString(s, end + 2, chunk \o "\"")
               [] esc = "\\" -> ScanString(s, end + 2, chunk \o "\\")
               [] esc = "/" -> ScanString(s, end + 2, chunk \o "/")
               [] esc = "n" -> ScanString(s, end + 2, chunk \o "\n")
               [] esc = "t" -> ScanString(s, end + 2, chunk \o "\t")
               [] esc = "r" -> ScanString(s, end + 2, chunk \o "\r")
               [] OTHER -> JFail)))

RECURSIVE ScanValue(_, _)
RECURSIVE ScanArray(_, _, _)
RECURSIVE ScanObject(_, _, _)

\* json.scanner.py_make_scanner._scan_once
ScanValue(s, i) ==
    IF i > Len(s) THEN JFail
    ELSE LET c == Ch(s, i) IN
         CASE c = "\"" -> ScanString(s, i + 1, "")
           [] c = "{" ->
                With(SkipWs(s, i + 1), LAMBDA j :
                    IF j <= Len(s) /\ Ch(s, j) = "}" THEN JOk(JObj(<<>>), j + 1)
                    ELSE ScanObject(s, j, <<>>))
           [] c = "[" ->
                With(SkipWs(s, i + 1), LAMBDA j :
                    IF j <= Len(s) /\ Ch(s, j) = "]" THEN JOk(JList(<<>>), j + 1)
                    ELSE ScanArray(s, j, <<>>))
           [] c = "n" /\ slice(s, i, i + 3) = "null" -> JOk(JNull, i + 4)
           [] c = "t" /\ slice(s, i, i + 3) = "true" -> JOk(JBool(TRUE), i + 4)
           [] c = "f" /\ slice(s, i, i + 4) = "false" -> JOk(JBool(FALSE), i + 5)
           [] c = "N" /\ slice(s, i, i + 2) = "NaN" -> JOk(JNaN, i + 3)
           [] c = "I" /\ slice(s, i, i + 7) = "Infinity" -> JOk(JInf(1), i + 8)
           [] c = "-" /\ slice(s, i, i + 8) = "-Infinity" -> JOk(JInf(-1), i + 9)
           [] OTHER -> ScanNumber(s, i)

\* json.decoder.JSONArray: i is at the first character of a value.
ScanArray(s, i, acc) ==
    With(ScanValue(s, i), LAMBDA r :
        IF ~r.ok THEN JFail
        ELSE With(SkipWs(s, r.pos), LAMBDA j :
                 With(Append(acc, r.v), LAMBDA items :
                     IF j > Len(s) THEN JFail
                     ELSE IF Ch(s, j) = "]" THEN JOk(JList(items), j + 1)
                     ELSE IF Ch(s, j) = ","
                          THEN With(SkipWs(s, j + 1),
                                    LAMBDA n : ScanArray(s, n, items))
                     ELSE JFail)))

\* json.decoder.JSONObject: i is at the opening quote of a key.
ScanObject(s, i, acc) ==
    IF i > Len(s) \/ Ch(s, i) # "\"" THEN JFail
    ELSE With(ScanString(s, i + 1, ""), LAMBDA key :
        IF ~key.ok THEN JFail
        ELSE With(SkipWs(s, key.pos), LAMBDA c :
            IF c > Len(s) \/ Ch(s, c) # ":" THEN JFail
            ELSE With(SkipWs(s, c + 1), LAMBDA b :
                 With(ScanValue(s, b), LAMBDA r :
                    IF ~r.ok THEN JFail
                    ELSE With(SkipWs(s, r.pos), LAMBDA j :
                         With(Append(acc, [k |-> key.v.s, v |-> r.v]), LAMBDA items :
                             IF j > Len(s) THEN JFail
                             ELSE IF Ch(s, j) = "}" THEN JOk(JObj(items), j + 1)
                             ELSE IF Ch(s, j) = ","
                                  THEN With(SkipWs(s, j + 1),
                                            LAMBDA n : ScanObject(s, n, items))
                             ELSE JFail))))))

\* json.loads(s): ok = FALSE stands for json.JSONDecodeError (no value, or
\* extra data after the value).
json_loads(s) ==
    With(ScanValue(s, SkipWs(s, 1)), LAMBDA r :
        IF ~r.ok THEN JFail
        ELSE IF SkipWs(s, r.pos) # Len(s) + 1 THEN JFail
        ELSE r)

(***************************************************************************)
(* What Python does with a decoded payload.  An operation that can raise   *)
(* gives a record whose field raised names the exception ("none": none).   *)
(***************************************************************************)
RECURSIVE HasKey(_, _)
HasKey(items, key) ==
    IF items = <<>> THEN FALSE
    ELSE IF Head(items).k = key THEN TRUE
    ELSE HasKey(Tail(items), key)

RECURSIVE LastValue(_, _, _)
\* The value a dict built from the pairs holds for key: the last one given.
LastValue(items, key, default) ==
    IF items = <<>> THEN default
    ELSE IF items[Len(items)].k = key THEN items[Len(items)].v
    ELSE LastValue(SubSeq(items, 1, Len(items) - 1), key, default)

RECURSIVE HasItem(_, _)
HasItem(items, x) ==
    IF items = <<>> THEN FALSE
    ELSE IF Head(items) = x THEN TRUE
    ELSE HasItem(Tail(items), x)

\* key in payload: dict keys, list items, substring of a str; TypeError for
\* a number, a bool and None.
PyIn(key, payload) ==
    CASE payload.t = "obj" -> [raised |-> "none", v |-> HasKey(payload.items, key)]
      [] payload.t = "list" ->
            [raised |-> "none", v |-> HasItem(payload.items, JStr(key))]
      [] payload.t = "str" -> [raised |-> "none", v |-> contains(payload.s, key)]
      [] OTHER -> [raised |-> "TypeError", v |-> FALSE]

\* payload.get(key, default): only a dict has .get
PyGet(payload, key, default) ==
    IF payload.t = "obj"
    THEN [raised |-> "none", v |-> LastValue(payload.items, key, default)]
    ELSE [raised |-> "AttributeError", v |-> default]

\* float() of a str: optional sign, then digits with an optional fraction,
\* or inf / infinity / nan; ValueError otherwise.
PyFloatOfStr(str) ==
    With(strip(str), LAMBDA t :
    With(t # "" /\ Ch(t, 1) \in {"+", "-"}, LAMBDA signed :
    With(IF signed /\ Ch(t, 1) = "-" THEN -1 ELSE 1, LAMBDA sign :
    With(IF signed THEN slice(t, 2, Len(t)) ELSE t, LAMBDA body :
    With(DigitsEnd(body, 1), LAMBDA intEnd :
    With(intEnd <= Len(body) /\ Ch(body, intEnd) = ".", LAMBDA hasDot :
    With(IF hasDot THEN DigitsEnd(body, intEnd + 1) ELSE intEnd, LAMBDA fracEnd :
    With((intEnd - 1) + (IF hasDot THEN fracEnd - intEnd - 1 ELSE 0),
         LAMBDA nDigits :
    With(lower(body), LAMBDA word :
        CASE word \in {"inf", "infinity"} -> [raised |-> "none", f |-> Inf(sign)]
          [] word = "nan" -> [raised |-> "none", f |-> NaN]
          [] nDigits > 0 /\ fracEnd = Len(body) + 1 ->
                [raised |-> "none",
                 f |-> Fin(sign * (IntOf(slice(body, 1, intEnd - 1)) * 100
                                     + FracOf(slice(body, intEnd + 1, fracEnd - 1))))]
          [] OTHER -> [raised |-> "ValueError", f |-> None])))))))))

\* float(x)
PyFloat(x) ==
    CASE x.t = "int" -> [raised |-> "none", f |-> Fin(x.n * 100)]
      [] x.t = "float" -> [raised |-> "none", f |-> Fin(x.n)]
      [] x.t = "bool" -> [raised |-> "none", f |-> Fin(x.n * 100)]
      [] x.t = "nan" -> [raised |-> "none", f |-> NaN]
      [] x.t = "inf" -> [raised |-> "none", f |-> Inf(x.n)]
      [] x.t = "str" -> PyFloatOfStr(x.s)
      [] OTHER -> [raised |-> "TypeError", f |-> None]

RECURSIVE NatStr(_)
NatStr(n) ==
    LET d == slice("0123456789", (n % 10) + 1, (n % 10) + 1)
    IN  IF n < 10 THEN d ELSE NatStr(n \div 10) \o d

IntStr(n) == IF n < 0 THEN "-" \o NatStr(0 - n) ELSE NatStr(n)

\* repr() of a finite float counted in hundredths
FloatStr(h) ==
    LET m == IF h < 0 THEN 0 - h ELSE h
        frac == m % 100
    IN  (IF h < 0 THEN "-" ELSE "") \o NatStr(m \div 100) \o "."
            \o (IF frac % 10 = 0 THEN NatStr(frac \div 10)
                ELSE NatStr(frac \div 10) \o NatStr(frac % 10))

\* repr() of a str without control characters
StrRepr(str) ==
    IF contains(str, "'") /\ ~contains(str, "\"")
    THEN "\"" \o replace_all(str, "\\", "\\\\") \o "\""
    ELSE "'" \o replace_all(replace_all(str, "\\", "\\\\"), "'", "\\'") \o "'"

RECURSIVE DictPairs(_, _)
\* The pairs of the dict built from the decoded pairs: one per key, at the
\* place of the key's first occurrence, with its last value.
DictPairs(items, all) ==
    IF items = <<>> THEN <<>>
    ELSE LET rest == DictPairs(SubSeq(items, 1, Len(items) - 1), all)
             last == items[Len(items)]
         IN  IF HasKey(SubSeq(items, 1, Len(items) - 1), last.k) THEN rest
             ELSE Append(rest, [k |-> last.k, v |-> LastValue(all, last.k, JNull)])

RECURSIVE PyRepr(_)
RECURSIVE JoinReprs(_)
RECURSIVE JoinPairs(_)

\* repr(x)
PyRepr(x) ==
    CASE x.t = "null" -> "None"
      [] x.t = "bool" -> IF x.n = 1 THEN "True" ELSE "False"
      [] x.t = "int" -> IntStr(x.n)
      [] x.t = "float" -> FloatStr(x.n)
      [] x.t = "nan" -> "nan"
      [] x.t = "inf" -> IF x.n < 0 THEN "-inf" ELSE "inf"
      [] x.t = "str" -> StrRepr(x.s)
      [] x.t = "list" -> "[" \o JoinReprs(x.items) \o "]"
      [] OTHER -> "{" \o JoinPairs(DictPairs(x.items, x.items)) \o "}"

JoinReprs(items) ==
    IF items = <<>> THEN ""
    ELSE IF Len(items) = 1 THEN PyRepr(items[1])
    ELSE PyRepr(items[1]) \o ", " \o JoinReprs(Tail(items))

JoinPairs(items) ==
    IF items = <<>> THEN ""
    ELSE LET one == StrRepr(items[1].k) \o ": " \o PyRepr(items[1].v)
         IN  IF Len(items) = 1 THEN one ELSE one \o ", " \o JoinPairs(Tail(items))

\* str(x)
PyStr(x) == IF x.t = "str" THEN x.s ELSE PyRepr(x)

(***************************************************************************)
(* parse_response, both variants.  The result is a record                  *)
(* [raised, score, explanation]; score = None is the absent score.  The    *)
(* 0-20 variant returns the score alone: its explanation field stays "".   *)
(***************************************************************************)
Parsed(score, explanation) ==
    [raised |-> "none", score |-> score, explanation |-> explanation]

Raised(e) == [raised |-> e, score |-> None, explanation |-> ""]

\* (?!\d) at index j
NotDigitAt(s, j) == j > Len(s) \/ ~IsDigit(Ch(s, j))

\* (?<!\d) at index i
NotAfterDigit(s, i) == i = 1 \/ ~IsDigit(Ch(s, i - 1))

\* src/evaluation.py: (?<!\d)(10\.\d|10|[1-9]\.\d|[1-9])(?!\d) tried at
\* index i; the index after the match, 0 when there is none.  The
\* alternatives are tried in the order written.
MatchAt10(s, i) ==
    LET c == Ch(s, i)
        nonzero == IsDigit(c) /\ c # "0"
    IN  IF ~NotAfterDigit(s, i) THEN 0
        ELSE IF /\ i + 3 <= Len(s)
                /\ slice(s, i, i + 2) = "10."
                /\ IsDigit(Ch(s, i + 3))
                /\ NotDigitAt(s, i + 4) THEN i + 4
        ELSE IF /\ i + 1 <= Len(s)
                /\ slice(s, i, i + 1) = "10"
                /\ NotDigitAt(s, i + 2) THEN i + 2
        ELSE IF /\ nonzero
                /\ i + 2 <= Len(s)
                /\ Ch(s, i + 1) = "."
                /\ IsDigit(Ch(s, i + 2))
                /\ NotDigitAt(s, i + 3) THEN i + 3
        ELSE IF nonzero /\ NotDigitAt(s, i + 1) THEN i + 1
        ELSE 0

\* (\.\d)?(?!\d) after a prefix that ends before index j: the optional
\* fraction is tried first, then dropped.
OptFracEnd(s, j) ==
    IF /\ j + 1 <= Len(s)
       /\ Ch(s, j) = "."
       /\ IsDigit(Ch(s, j + 1))
       /\ NotDigitAt(s, j + 2) THEN j + 2
    ELSE IF NotDigitAt(s, j) THEN j
    ELSE 0

\* src/src/evaluation.py:
\* (?<!\d)(20(\.\d)?|1[0-9](\.\d)?|[0-9](\.\d)?)(?!\d) tried at index i
MatchAt20(s, i) ==
    LET a1 == IF i + 1 <= Len(s) /\ slice(s, i, i + 1) = "20"
              THEN OptFracEnd(s, i + 2) ELSE 0
        a2 == IF i + 1 <= Len(s) /\ Ch(s, i) = "1" /\ IsDigit(Ch(s, i + 1))
              THEN OptFracEnd(s, i + 2) ELSE 0
        a3 == IF IsDigit(Ch(s, i)) THEN OptFracEnd(s, i + 1) ELSE 0
    IN  IF ~NotAfterDigit(s, i) THEN 0
        ELSE IF a1 # 0 THEN a1
        ELSE IF a2 # 0 THEN a2
        ELSE a3

MatchAt(v, s, i) == IF v = "v10" THEN MatchAt10(s, i) ELSE MatchAt20(s, i)

RECURSIVE SearchFrom(_, _, _)
\* re.search: the leftmost index at which the pattern matches, with the end
\* of that match; found = FALSE when no index matches.
SearchFrom(v, s, i) ==
    IF i > Len(s) THEN [found |-> FALSE, start |-> 0, end |-> 0]
    ELSE IF MatchAt(v, s, i) # 0
         THEN [found |-> TRUE, start |-> i, end |-> MatchAt(v, s, i)]
    ELSE SearchFrom(v, s, i + 1)

re_search(v, s) == SearchFrom(v, s, 1)

\* The structured step of both variants:
\*   score = float(payload.get("score")) if "score" in payload else None
JsonScore(payload) ==
    With(PyIn("score", payload), LAMBDA has :
        IF has.raised # "none" THEN Raised(has.raised)
        ELSE IF ~has.v THEN Parsed(None, "")
        ELSE With(PyGet(payload, "score", JNull), LAMBDA got :
            IF got.raised # "none" THEN Raised(got.raised)
            ELSE With(PyFloat(got.v), LAMBDA f :
                IF f.raised # "none" THEN Raised(f.raised)
                ELSE Parsed(f.f, ""))))

\* The explanation step without .strip(): the text as the payload gives it.
JsonExplanation_NoStrip(payload) ==
    With(PyGet(payload, "explanation", JStr("")), LAMBDA got :
        IF got.raised # "none" THEN Raised(got.raised)
        ELSE Parsed(None, PyStr(got.v)))

\* explanation = str(payload.get("explanation", "")).strip()
JsonExplanation(payload) ==
    With(PyGet(payload, "explanation", JStr("")), LAMBDA got :
        IF got.raised # "none" THEN Raised(got.raised)
        ELSE Parsed(None, strip(PyStr(got.v))))

\* src/evaluation.py, the fallback of parse_response: the score is the first
\* match, the explanation the text without the first occurrence of the
\* matched characters.
text_scan_10(response) ==
    With(re_search("v10", response), LAMBDA match :
    With(slice(response, match.start, match.end - 1), LAMBDA group :
        IF match.found
        THEN Parsed(PyFloatOfStr(group).f, strip(replace_once(response, group, "")))
        ELSE Parsed(None, response)))

\* src/src/evaluation.py, the fallback of parse_response: a match outside
\* 0..20 is no score.
text_scan_20(response) ==
    With(re_search("v20", response), LAMBDA match :
    With(PyFloatOfStr(slice(response, match.start, match.end - 1)).f, LAMBDA score :
        IF match.found
        THEN IF FLt(score, Fin(0)) \/ FLt(Fin(2000), score)
             THEN Parsed(None, "")
             ELSE Parsed(score, "")
        ELSE Parsed(None, "")))

\* src/evaluation.py parse_response
parse_response_10(response0) ==
    With(strip(response0), LAMBDA response :
        IF response = "" THEN Parsed(None, "")
        ELSE With(json_loads(response), LAMBDA payload :
            IF payload.ok
            THEN With(JsonScore(payload.v), LAMBDA js :
                 With(JsonExplanation(payload.v), LAMBDA je :
                     IF js.raised # "none" THEN js
                     ELSE IF je.raised # "none" THEN je
                     ELSE Parsed(js.score, je.explanation)))
            ELSE text_scan_10(response)))

\* src/src/evaluation.py parse_response
parse_response_20(response0) ==
    With(strip(response0), LAMBDA response :
        IF response = "" THEN Parsed(None, "")
        ELSE With(json_loads(response), LAMBDA payload :
            IF payload.ok THEN JsonScore(payload.v)
            ELSE text_scan_20(response)))

\* parse_response with a text scan also for a JSON object that has no key
\* "score".
parse_response_scan(v, response0) ==
    With(strip(response0), LAMBDA response :
    With(json_loads(response), LAMBDA payload :
        IF payload.ok /\ payload.v.t = "obj" /\ ~HasKey(payload.v.items, "score")
        THEN IF v = "v10" THEN text_scan_10(response) ELSE text_scan_20(response)
        ELSE IF v = "v10" THEN parse_response_10(response0)
        ELSE parse_response_20(response0)))

parse_response(v, response) ==
    IF v = "v10" THEN parse_response_10(response) ELSE parse_response_20(response)

(***************************************************************************)
(* The category lists.  The model keeps NumCategories categories of each   *)
(* variant, taken from the head of the lists of the source.                *)
(***************************************************************************)
Prefix(seq, n) == SubSeq(seq, 1, IF n < Len(seq) THEN n ELSE Len(seq))

\* src/evaluation.py
STORY_EVALUATION_CATEGORIES_10 ==
    Prefix(<< "Grammar, spelling, and punctuation quality",
              "Sentence pattern variety",
              "Avoidance of clichés and overused phrases",
              "Clarity and understandability",
              "Logical connection between events and ideas",
              "Internal consistency within the story's context",
              "Scene construction and purpose",
              "Avoidance of predictable narrative tropes",
              "Ability to hold reader interest",
              "Character consistency",
              "Character motivation and actions making sense",
              "Natural dialogue",
              "Character depth and dimensionality",
              "Realistic character interactions" >>, NumCategories)

\* src/src/evaluation.py
POSITIVE_CATEGORIES ==
    Prefix(<< "Adherence to Instructions",
              "Believable Character Actions",
              "Nuanced Characters",
              "Consistent Voice / Tone of Writing",
              "Imagery and Descriptive Quality",
              "Elegant Prose",
              "Emotionally Engaging",
              "Emotionally Complex",
              "Coherent",
              "Well-earned Lightness or Darkness",
              "Sentences Flow Naturally",
              "Overall Reader Engagement",
              "Overall Impression" >>, NumCategories - 1)

NEGATIVE_CATEGORIES ==
    Prefix(<< "Meandering",
              "Weak Dialogue",
              "Tell-Don't-Show",
              "Unsurprising or Uncreative",
              "Amateurish",
              "Purple Prose",
              "Overwrought",
              "Incongruent Ending Positivity",
              "Unearned Transformations" >>, 1)

STORY_EVALUATION_CATEGORIES_20 == POSITIVE_CATEGORIES \o NEGATIVE_CATEGORIES

STORY_EVALUATION_CATEGORIES(v) ==
    IF v = "v10" THEN STORY_EVALUATION_CATEGORIES_10
    ELSE STORY_EVALUATION_CATEGORIES_20

Range(seq) == {seq[i] : i \in 1..Len(seq)}

\* The dataclass.  The 0-20 variant has no explanation field: it stays "".
EvaluationResult(category, score, explanation) ==
    [category |-> category, score |-> score, explanation |-> explanation]

(***************************************************************************)
(* The transport.                                                          *)
(***************************************************************************)
\* WolverineClient.chat: (completion.choices[0].message.content or "")
\* .strip(); a content of None is the content "".
chat(content) == strip(content)

\* One entry of chat_log: a call of client.chat.  about is the category the
\* prompt names ("" when it names none), ok = FALSE a call that raised.
ChatEntry(kind, about, ok, reply) ==
    [kind |-> kind, about |-> about, ok |-> ok, reply |-> reply]

(***************************************************************************)
(* Scoring one response.                                                   *)
(***************************************************************************)
\* score = 0.0, the default of both variants for an absent score
DefaultScore == Fin(0)

\* The 0-20 variant: if score < 0: 0.0 elif score > 20: 20.0
Clamp(score) ==
    IF FLt(score, Fin(0)) THEN Fin(0)
    ELSE IF FLt(Fin(2000), score) THEN Fin(2000)
    ELSE score

\* What the callers of parse_response store for a parsed response.
StoredScore(v, p) ==
    IF p.score = None THEN DefaultScore
    ELSE IF v = "v10" THEN p.score
    ELSE Clamp(p.score)

\* The assignment putting a new key in front of the keys already there.
DictSet_prepend(d, r) == <<r>> \o d

\* results[category] = EvaluationResult(...) on a dict kept as a sequence in
\* insertion order: a key already there keeps its place.
RECURSIVE DictSet(_, _)
DictSet(d, r) ==
    IF d = <<>> THEN <<r>>
    ELSE IF Head(d).category = r.category THEN <<r>> \o Tail(d)
    ELSE <<Head(d)>> \o DictSet(Tail(d), r)

(***************************************************************************)
(* The combined call of the 0-20 variant.                                  *)
(***************************************************************************)
Fence == slice("```'", 1, 3)

\* Remove markdown code blocks if present
StripFences(response) ==
    With(strip(response), LAMBDA c0 :
    With(IF startswith(c0, Fence \o "json") THEN slice(c0, 8, Len(c0)) ELSE c0,
         LAMBDA c1 :
    With(IF startswith(c1, Fence) THEN slice(c1, 4, Len(c1)) ELSE c1, LAMBDA c2 :
    With(IF endswith(c2, Fence) THEN slice(c2, 1, Len(c2) - 3) ELSE c2, LAMBDA c3 :
        strip(c3)))))

\* The test of the partial match of a returned key against a category.
FuzzyMatch(category, key) ==
    With(strip(replace_all(replace_all(key, " (POSITIVE)", ""),
                           " (NEGATIVE/PENALTY)", "")), LAMBDA cleaned_key :
    With(lower(category), LAMBDA c :
    With(lower(cleaned_key), LAMBDA k :
        c = k \/ contains(k, c) \/ contains(c, k))))

RECURSIVE FirstFuzzy(_, _)
\* for key, value in scores.items(): the value of the first key that
\* matches, None when no key does.
FirstFuzzy(pairs, category) ==
    IF pairs = <<>> THEN JNull
    ELSE IF FuzzyMatch(category, Head(pairs).k) THEN Head(pairs).v
    ELSE FirstFuzzy(Tail(pairs), category)

\* The raw score of one category out of the scores dict.
ScoreOf(scores, category) ==
    With(LastValue(scores.items, category, JNull), LAMBDA exact :
        IF exact # JNull THEN exact
        ELSE FirstFuzzy(DictPairs(scores.items, scores.items), category))

\* float(score) clamped; 0.0 for None and for what float() refuses
\* (ValueError, TypeError).
CombinedScore(raw) ==
    IF raw = JNull THEN DefaultScore
    ELSE With(PyFloat(raw), LAMBDA score :
        IF score.raised # "none" THEN Fin(0) ELSE Clamp(score.f))

RECURSIVE CombinedResults(_, _)
CombinedResults(scores, categories) ==
    IF categories = <<>> THEN <<>>
    ELSE <<EvaluationResult(Head(categories),
                            CombinedScore(ScoreOf(scores, Head(categories))), "")>>
             \o CombinedResults(scores, Tail(categories))

\* The try block with the except clause answering a response that is not
\* JSON by the minimum score of every category, without a further call.
parse_combined_no_fallback(response) ==
    With(json_loads(StripFences(response)), LAMBDA payload :
        IF ~payload.ok
        THEN [raised |-> "none", fallback |-> FALSE,
              results |-> CombinedResults(JObj(<<>>),
                                          STORY_EVALUATION_CATEGORIES_20)]
        ELSE With(PyGet(payload.v, "scores", JObj(<<>>)), LAMBDA scores :
            IF scores.raised # "none"
            THEN [raised |-> scores.raised, fallback |-> FALSE, results |-> <<>>]
            ELSE IF scores.v.t # "obj"
            THEN [raised |-> "AttributeError", fallback |-> FALSE, results |-> <<>>]
            ELSE [raised |-> "none", fallback |-> FALSE,
                  results |-> CombinedResults(scores.v,
                                              STORY_EVALUATION_CATEGORIES_20)]))

\* The try block of evaluate_all_categories (0-20 variant): raised names an
\* exception that leaves the method, fallback the JSONDecodeError that the
\* except clause answers with per-category calls.
parse_combined(response) ==
    With(json_loads(StripFences(response)), LAMBDA payload :
        IF ~payload.ok
        THEN [raised |-> "none", fallback |-> TRUE, results |-> <<>>]
        ELSE With(PyGet(payload.v, "scores", JObj(<<>>)), LAMBDA scores :
            IF scores.raised # "none"
            THEN [raised |-> scores.raised, fallback |-> FALSE, results |-> <<>>]
            ELSE IF scores.v.t # "obj"
            THEN [raised |-> "AttributeError", fallback |-> FALSE, results |-> <<>>]
            ELSE [raised |-> "none", fallback |-> FALSE,
                  results |-> CombinedResults(scores.v,
                                              STORY_EVALUATION_CATEGORIES_20)]))

(***************************************************************************)
(* analyze_creativity_difference.                                          *)
(***************************************************************************)
JAbsent == [t |-> "absent", n |-> 0, s |-> "", items |-> <<>>]

\* The dict the method returns.  analysis = JAbsent and impact.present =
\* FALSE stand for a key the dict does not have.
AnalysisDict(standalone, contextual, difference, analysis, influential, impact) ==
    [standalone_creativity_score |-> standalone,
     contextual_creativity_score |-> contextual,
     difference |-> difference,
     analysis |-> analysis,
     influential_categories |-> influential,
     impact |-> impact]

NoImpact == [present |-> FALSE, items |-> <<>>]

NoAnalysis == AnalysisDict(None, None, None, JAbsent, <<>>, NoImpact)

\* The tolerance test with <= in place of <.
WithinTolerance_Inclusive(standalone_score, contextual_score) ==
    ~FLt(Fin(10), FAbs(FSub(standalone_score, contextual_score)))
        /\ FSub(standalone_score, contextual_score) # NaN

\* abs(standalone_score - contextual_score) < 0.1
WithinTolerance(standalone_score, contextual_score) ==
    FLt(FAbs(FSub(standalone_score, contextual_score)), Fin(10))

SameScoresText ==
    "The creativity scores are essentially the same. No significant difference to analyze."

\* The early return.
early_return(v, standalone_score, contextual_score) ==
    AnalysisDict(standalone_score, contextual_score, Fin(0),
                 IF v = "v10" THEN JStr(SameScoresText) ELSE JAbsent,
                 <<>>, NoImpact)

RECURSIVE StrChars(_)
StrChars(str) ==
    IF str = "" THEN <<>>
    ELSE <<JStr(Ch(str, 1))>> \o StrChars(slice(str, 2, Len(str)))

RECURSIVE KeysOf(_)
KeysOf(pairs) ==
    IF pairs = <<>> THEN <<>> ELSE <<JStr(Head(pairs).k)>> \o KeysOf(Tail(pairs))

\* for cat in x: the items of a list, the characters of a str, the keys of
\* a dict; TypeError for a number, a bool and None.
PyIter(x) ==
    CASE x.t = "list" -> [raised |-> "none", items |-> x.items]
      [] x.t = "str" -> [raised |-> "none", items |-> StrChars(x.s)]
      [] x.t = "obj" ->
            [raised |-> "none", items |-> KeysOf(DictPairs(x.items, x.items))]
      [] OTHER -> [raised |-> "TypeError", items |-> <<>>]

RECURSIVE valid_categories_unfiltered(_, _)
\* The list of the response without the test against the vocabulary.
valid_categories_unfiltered(v, items) ==
    IF items = <<>> THEN <<>>
    ELSE IF Head(items).t = "str"
         THEN <<Head(items).s>> \o valid_categories_unfiltered(v, Tail(items))
    ELSE valid_categories_unfiltered(v, Tail(items))

RECURSIVE valid_categories(_, _)
\* [cat for cat in influential_categories if cat in STORY_EVALUATION_CATEGORIES]
valid_categories(v, items) ==
    IF items = <<>> THEN <<>>
    ELSE IF /\ Head(items).t = "str"
            /\ Head(items).s \in Range(STORY_EVALUATION_CATEGORIES(v))
         THEN <<Head(items).s>> \o valid_categories(v, Tail(items))
    ELSE valid_categories(v, Tail(items))

RECURSIVE DictPut(_, _, _)
DictPut(pairs, key, value) ==
    IF pairs = <<>> THEN <<[k |-> key, v |-> value]>>
    ELSE IF Head(pairs).k = key THEN <<[k |-> key, v |-> value]>> \o Tail(pairs)
    ELSE <<Head(pairs)>> \o DictPut(Tail(pairs), key, value)

RECURSIVE valid_impact(_, _, _)
\* {cat: impact[cat] for cat in valid_categories if cat in impact}
valid_impact(cats, impact, acc) ==
    IF cats = <<>> THEN [raised |-> "none", items |-> acc]
    ELSE LET has == PyIn(Head(cats), impact) IN
         IF has.raised # "none" THEN [raised |-> has.raised, items |-> <<>>]
         ELSE IF ~has.v THEN valid_impact(Tail(cats), impact, acc)
         ELSE IF impact.t # "obj" THEN [raised |-> "TypeError", items |-> <<>>]
         ELSE valid_impact(Tail(cats), impact,
                           DictPut(acc, Head(cats),
                                   LastValue(impact.items, Head(cats), JNull)))

\* The part of analyze_creativity_difference that follows the transport
\* call: [raised, value].
parse_analysis(v, standalone_score, contextual_score, analysis_response) ==
    With(json_loads(analysis_response), LAMBDA analysis_data :
    With(FRound1(FAbs(FSub(standalone_score, contextual_score))), LAMBDA difference :
        IF ~analysis_data.ok
        THEN [raised |-> "none",
              value |-> AnalysisDict(standalone_score, contextual_score, difference,
                            IF v = "v10" THEN JStr(analysis_response) ELSE JAbsent,
                            <<>>,
                            IF v = "v10" THEN [present |-> TRUE, items |-> <<>>]
                            ELSE NoImpact)]
        ELSE
        With(PyGet(analysis_data.v, "influential_categories", JList(<<>>)),
             LAMBDA influential :
            IF influential.raised # "none"
            THEN [raised |-> influential.raised, value |-> NoAnalysis]
            ELSE
            With(PyIter(influential.v), LAMBDA listed :
                IF listed.raised # "none"
                THEN [raised |-> listed.raised, value |-> NoAnalysis]
                ELSE
                With(valid_categories(v, listed.items), LAMBDA valid :
                    IF v = "v20"
                    THEN [raised |-> "none",
                          value |-> AnalysisDict(standalone_score, contextual_score,
                                        difference, JAbsent, valid, NoImpact)]
                    ELSE
                    With(valid_impact(valid,
                             PyGet(analysis_data.v, "impact", JObj(<<>>)).v, <<>>),
                         LAMBDA impact :
                        IF impact.raised # "none"
                        THEN [raised |-> impact.raised, value |-> NoAnalysis]
                        ELSE [raised |-> "none",
                              value |-> AnalysisDict(standalone_score,
                                  contextual_score, difference,
                                  PyGet(analysis_data.v, "analysis", JStr("")).v,
                                  valid,
                                  [present |-> TRUE, items |-> impact.items])]))))))

(***************************************************************************)
(* What the remote model may answer.  The content is the text before       *)
(* chat() trims it.                                                        *)
(***************************************************************************)
\* Answers to a scoring prompt (one category, or creativity).
ScoreContents ==
    { "{\"score\": 7.5, \"explanation\": \"clear\"}",
      " {\"score\": 7, \"explanation\": \" vivid \"} \n",
      "{\"score\": 15}",
      "{\"score\": 25.5}",
      "{\"score\": NaN}",
      "{\"score\": null}",
      "{\"score\": \"high\"}",
      "{\"explanation\": \"about 8 out of 10\"}",
      "5",
      "[7]",
      "\"great\"",
      "I'd say this is about an 8 out of 10.",
      "10.5",
      "Score: 10.5",
      "no number here",
      "" }

\* Answers to the combined prompt of the 0-20 variant.
CombinedContents ==
    { "{\"scores\": {\"Adherence to Instructions\": 16.5, \"Meandering\": 4.0}}",
      "{\"scores\": {\"Adherence to Instructions (POSITIVE)\": 25, \"Meandering (NEGATIVE/PENALTY)\": -3}}",
      Fence \o "json\n{\"scores\": {\"Meandering\": \"18\", \"adherence\": NaN}}\n" \o Fence,
      "{\"scores\": {\"Adherence to Instructions\": null, \"e\": 12, \"Meandering\": \"low\"}}",
      "{\"scores\": {\"e\": 12}}",
      "{\"scores\": [16.5, 4.0]}",
      "{\"score\": 5}",
      "[16.5, 4.0]",
      "Adherence to Instructions: 16.5, Meandering: 4" }

\* Answers to the analysis prompt.
AnalysisContents ==
    { "{\"influential_categories\": [\"Sentence pattern variety\", \"Creativity\", \"Meandering\", \"Pacing\", 3, \"Grammar, spelling, and punctuation quality\", \"Adherence to Instructions\", \"Sentence pattern variety\"], \"analysis\": \"pacing\", \"impact\": {\"Sentence pattern variety\": \"positive\", \"Pacing\": \"negative\"}}",
      "{\"influential_categories\": [\"Meandering\", \"Sentence pattern variety\"], \"impact\": [\"Meandering\", \"Sentence pattern variety\"]}",
      "{\"influential_categories\": \"Meandering\"}",
      "{\"influential_categories\": 5}",
      "{\"analysis\": \"nothing stood out\"}",
      "[\"Meandering\"]",
      "5",
      Fence \o "json\n{\"influential_categories\": [\"Meandering\"]}\n" \o Fence,
      "The pacing mattered most.",
      "" }

\* A score argument of analyze_creativity_difference.
ScoreArgs == {Fin(0), Fin(100), Fin(110), Fin(750), Fin(752), Fin(1000), NaN}

(***************************************************************************)
(* The dataset tools of src/src/server.py: their data.                     *)
(***************************************************************************)
\* _dataset = None
NotLoaded == [loaded |-> FALSE, rows |-> <<>>]

\* A DataFrame with these rows; pd.DataFrame() is DataFrame(<<>>).
DataFrame(rows) == [loaded |-> TRUE, rows |-> rows]

\* A frame that never counts as empty.
empty_never(dataset) == FALSE

\* dataset.empty
empty(dataset) == dataset.rows = <<>>

\* The file at DATASET_PATH: absent, present but refused by pd.read_csv, or
\* a CSV with these rows.
MissingFile == [exists |-> FALSE, readable |-> FALSE, rows |-> <<>>]

CorruptFile == [exists |-> TRUE, readable |-> FALSE, rows |-> <<>>]

CsvFile(rows) == [exists |-> TRUE, readable |-> TRUE, rows |-> rows]

DatasetRows ==
    << [model |-> "alpha", response |-> "A fox ran."],
       [model |-> "beta", response |-> "Rain fell."] >>

DatasetFiles ==
    {MissingFile, CorruptFile}
        \cup {CsvFile(Prefix(DatasetRows, n)) : n \in 0..Len(DatasetRows)}

\* The index argument of read_dataset.
Indexes == {-2, -1, 0, 1, 2, 3}

\* The output_filename argument of evaluate_full_dataset.
OutputFilenames == {"results.csv"}

\* load_dataset() that reads the file again while the cached frame is empty.
load_dataset_reloading(cached, file) ==
    IF cached.rows = <<>>
    THEN IF file.exists
         THEN IF file.readable
              THEN [dataset |-> DataFrame(file.rows), read |-> 1]
              ELSE [dataset |-> DataFrame(<<>>), read |-> 1]
         ELSE [dataset |-> DataFrame(<<>>), read |-> 0]
    ELSE [dataset |-> cached, read |-> 0]

\* load_dataset(): the dataset it caches and returns, and the number of
\* pd.read_csv calls it makes.
load_dataset(cached, file) ==
    IF cached = NotLoaded
    THEN IF file.exists
         THEN IF file.readable
              THEN [dataset |-> DataFrame(file.rows), read |-> 1]
              ELSE [dataset |-> DataFrame(<<>>), read |-> 1]
         ELSE [dataset |-> DataFrame(<<>>), read |-> 0]
    ELSE [dataset |-> cached, read |-> 0]

\* The last dataset tool call, with its index argument, and what it gave:
\* kind is "error" for {"error": ...}, "row" for
\* the dict of read_dataset, "success" for the dict of
\* evaluate_full_dataset, "raised" for an exception that leaves the tool.
NoValue ==
    [tool |-> "none", arg_index |-> 0, kind |-> "none", error |-> "",
     index |-> 0, model |-> "",
     response |-> "", total_entries |-> 0, entries_evaluated |-> 0,
     output_file |-> "", csv_content |-> <<>>, exc |-> "none"]

ErrorValue(tool, message) ==
    [NoValue EXCEPT !.tool = tool, !.kind = "error", !.error = message]

RaisedValue(tool, e) ==
    [NoValue EXCEPT !.tool = tool, !.kind = "raised", !.exc = e]

NotLoadedOrEmpty == "Dataset is not loaded or is empty"

\* The range test with index > len(dataset) for its upper end.
index_out_of_range_past_end(index, total) == index < 0 \/ index > total

\* index < 0 or index >= len(dataset)
index_out_of_range(index, total) == index < 0 \/ index >= total

\* dataset.iloc[index]: a negative index counts from the end, an index
\* outside the frame raises IndexError.
iloc(rows, index) ==
    IF 0 <= index /\ index < Len(rows)
    THEN [raised |-> "none", row |-> rows[index + 1]]
    ELSE IF index < 0 /\ 0 - index <= Len(rows)
    THEN [raised |-> "none", row |-> rows[Len(rows) + index + 1]]
    ELSE [raised |-> "IndexError", row |-> [model |-> "", response |-> ""]]

\* The body of read_dataset after load_dataset().
read_dataset_value(dataset, index) ==
    IF empty(dataset) THEN ErrorValue("read_dataset", NotLoadedOrEmpty)
    ELSE IF index_out_of_range(index, Len(dataset.rows))
    THEN ErrorValue("read_dataset",
             "Index " \o IntStr(index) \o " out of range. Dataset has "
                 \o IntStr(Len(dataset.rows)) \o " entries (valid range: 0-"
                 \o IntStr(Len(dataset.rows) - 1) \o ").")
    ELSE With(iloc(dataset.rows, index), LAMBDA got :
        IF got.raised # "none" THEN RaisedValue("read_dataset", got.raised)
        ELSE [NoValue EXCEPT !.tool = "read_dataset", !.kind = "row",
                             !.index = index, !.model = got.row.model,
                             !.response = got.row.response,
                             !.total_entries = Len(dataset.rows)])

\* The file at output_path: not there, or a CSV with these records.
NoFile == [written |-> FALSE, path |-> "", records |-> <<>>]

\* The locals of evaluate_full_dataset between two transport calls: i the
\* row in work, stage the evaluator method that runs, calls the transport
\* calls made for row i so far.
NoResult == [category |-> "", score |-> None, explanation |-> ""]

NoRun ==
    [running |-> FALSE, i |-> 0, total_entries |-> 0, output_path |-> "",
     stage |-> "", standalone_creativity |-> NoResult, eval_results |-> <<>>,
     results |-> <<>>, calls |-> <<>>]

\* The answers of the remote model while evaluate_full_dataset runs: fewer
\* texts, so that a run over several rows stays small.  Each set keeps an
\* answer that parses, one that does not and one that makes the code raise.
RunScoreContents ==
    { "{\"score\": 7.5, \"explanation\": \"clear\"}",
      "no number here",
      "5" }

RunCombinedContents ==
    { "{\"scores\": {\"Adherence to Instructions\": 16.5, \"Meandering\": 4.0}}",
      Fence \o "json\n{\"scores\": {\"Meandering\": \"18\", \"adherence\": NaN}}\n" \o Fence,
      "Adherence to Instructions: 16.5, Meandering: 4",
      "[16.5, 4.0]" }

RunAnalysisContents ==
    { "{\"influential_categories\": [\"Meandering\", \"Sentence pattern variety\"], \"impact\": [\"Meandering\", \"Sentence pattern variety\"]}",
      "The pacing mattered most." }

ScoreAnswers == IF full_run.running THEN RunScoreContents ELSE ScoreContents

CombinedAnswers ==
    IF full_run.running THEN RunCombinedContents ELSE CombinedContents

AnalysisAnswers ==
    IF full_run.running THEN RunAnalysisContents ELSE AnalysisContents

(***************************************************************************)
(* The evaluator as a state machine.  One operation runs at a time (the    *)
(* tool surface is synchronous); it is cut at its transport calls.         *)
(***************************************************************************)
NoReturn == [results |-> <<>>, analysis |-> NoAnalysis]

NotParsed == [raised |-> "unparsed", score |-> None, explanation |-> ""]

NoArgs == [standalone |-> None, contextual |-> None]

Variants == {"v10", "v20"}

Init ==
    /\ variant \in Variants
    /\ pc = "idle"
    /\ op = "none"
    /\ args = NoArgs
    /\ idx = 0
    /\ results = <<>>
    /\ chat_log = <<>>
    /\ status = "returned"
    /\ exc = "none"
    /\ ret = NoReturn
    /\ text = ""
    /\ parsed = NotParsed
    /\ _dataset = NotLoaded
    /\ dataset_file = MissingFile
    /\ read_csv_calls = 0
    /\ results_file = NoFile
    /\ full_run = NoRun
    /\ tool_ret = NoValue

\* An operation starts: its locals are fresh.
Enter(name, at) ==
    /\ pc = "idle"
    /\ pc' = at
    /\ op' = name
    /\ args' = NoArgs
    /\ results' = <<>>
    /\ chat_log' = <<>>
    /\ status' = "running"
    /\ exc' = "none"
    /\ ret' = NoReturn
    /\ UNCHANGED <<variant, text, parsed>>

\* The operation returns value.
Return(kind, about, reply, value) ==
    /\ pc' = "idle"
    /\ idx' = 0
    /\ chat_log' = Append(chat_log, ChatEntry(kind, about, TRUE, reply))
    /\ status' = "returned"
    /\ exc' = "none"
    /\ ret' = value

\* An exception leaves the operation: nothing is returned.
Raise(kind, about, ok, reply, e) ==
    /\ pc' = "idle"
    /\ idx' = 0
    /\ chat_log' = Append(chat_log, ChatEntry(kind, about, ok, reply))
    /\ status' = "raised"
    /\ exc' = e
    /\ ret' = NoReturn

\* The kind of transport call each position waits for.
KindAt(at) ==
    CASE at = "ec" -> "standalone"
      [] at = "eac_combined" -> "combined"
      [] at = "eac_category" -> "category"
      [] at = "eac_creativity" -> "creativity"
      [] OTHER -> "analysis"

\* The category the prompt of each position names.
AboutAt(at) ==
    CASE at \in {"ec", "eac_creativity"} -> "Creativity"
      [] at = "eac_category" -> STORY_EVALUATION_CATEGORIES(variant)[idx]
      [] OTHER -> ""

\* client.chat raises and the method goes on: the call is made again.
ChatRaises_Caught ==
    /\ pc # "idle"
    /\ Len(chat_log) < NumCategories + 3
    /\ chat_log' = Append(chat_log, ChatEntry(KindAt(pc), AboutAt(pc), FALSE, ""))
    /\ UNCHANGED <<variant, pc, op, args, idx, results, status, exc, ret, text, parsed>>
    /\ UNCHANGED server_vars

\* client.chat raises: no method of the evaluator catches it.
ChatRaises ==
    /\ pc # "idle"
    /\ Raise(KindAt(pc), AboutAt(pc), FALSE, "", "TransportError")
    /\ UNCHANGED <<variant, op, args, results, text, parsed>>
    /\ UNCHANGED server_vars

\* evaluate_creativity(story) is called.
Enter_evaluate_creativity ==
    /\ Enter("evaluate_creativity", "ec")
    /\ idx' = 0

Call_evaluate_creativity ==
    /\ Enter_evaluate_creativity
    /\ UNCHANGED server_vars

\* evaluate_creativity: the transport call returns.
evaluate_creativity ==
    /\ pc = "ec"
    /\ \E content \in ScoreAnswers :
         \E response \in {chat(content)} :
         \E p \in {parse_response(variant, response)} :
             IF p.raised # "none"
             THEN Raise("standalone", "Creativity", TRUE, response, p.raised)
             ELSE Return("standalone", "Creativity", response,
                         [results |-> <<EvaluationResult("Creativity",
                                           StoredScore(variant, p), p.explanation)>>,
                          analysis |-> NoAnalysis])
    /\ UNCHANGED <<variant, op, args, results, text, parsed>>
    /\ UNCHANGED server_vars

\* evaluate_all_categories(story) is called.
Enter_evaluate_all_categories ==
    /\ Enter("evaluate_all_categories",
             IF variant = "v10" THEN "eac_category" ELSE "eac_combined")
    /\ idx' = 1

Call_evaluate_all_categories ==
    /\ Enter_evaluate_all_categories
    /\ UNCHANGED server_vars

\* 0-20 variant: the combined call returns.
evaluate_all_combined ==
    /\ pc = "eac_combined"
    /\ \E content \in CombinedAnswers :
         \E response \in {chat(content)} :
         \E c \in {parse_combined(response)} :
             IF c.raised # "none"
             THEN /\ Raise("combined", "", TRUE, response, c.raised)
                  /\ UNCHANGED results
             ELSE /\ chat_log' = Append(chat_log, ChatEntry("combined", "", TRUE, response))
                  /\ pc' = IF c.fallback THEN "eac_category" ELSE "eac_creativity"
                  /\ results' = c.results
                  /\ idx' = IF c.fallback THEN 1 ELSE idx
                  /\ UNCHANGED <<status, exc, ret>>
    /\ UNCHANGED <<variant, op, args, text, parsed>>
    /\ UNCHANGED server_vars

\* The call for category number idx returns (the loop of the 1-10 variant,
\* the fallback loop of the 0-20 variant).
evaluate_all_category ==
    /\ pc = "eac_category"
    /\ \E content \in ScoreAnswers :
         \E response \in {chat(content)} :
         \E p \in {parse_response(variant, response)} :
         \E category \in {STORY_EVALUATION_CATEGORIES(variant)[idx]} :
             IF p.raised # "none"
             THEN /\ Raise("category", category, TRUE, response, p.raised)
                  /\ UNCHANGED results
             ELSE /\ chat_log' = Append(chat_log, ChatEntry("category", category, TRUE, response))
                  /\ results' = DictSet(results, EvaluationResult(category,
                                           StoredScore(variant, p), p.explanation))
                  /\ idx' = idx + 1
                  /\ pc' = IF idx = Len(STORY_EVALUATION_CATEGORIES(variant))
                           THEN "eac_creativity" ELSE "eac_category"
                  /\ UNCHANGED <<status, exc, ret>>
    /\ UNCHANGED <<variant, op, args, text, parsed>>
    /\ UNCHANGED server_vars

\* The creativity call that ends evaluate_all_categories returns.
evaluate_all_creativity ==
    /\ pc = "eac_creativity"
    /\ \E content \in ScoreAnswers :
         \E response \in {chat(content)} :
         \E p \in {parse_response(variant, response)} :
         \E all \in {DictSet(results, EvaluationResult("Creativity",
                                 StoredScore(variant, p), p.explanation))} :
             IF p.raised # "none"
             THEN /\ Raise("creativity", "Creativity", TRUE, response, p.raised)
                  /\ UNCHANGED results
             ELSE /\ Return("creativity", "Creativity", response,
                            [results |-> all, analysis |-> NoAnalysis])
                  /\ results' = all
    /\ UNCHANGED <<variant, op, args, text, parsed>>
    /\ UNCHANGED server_vars

\* analyze_creativity_difference(story, standalone_creativity,
\* all_categories_results) is called, with the two scores it reads:
\* creativity = None stands for a dict without the key "Creativity".
EnterAnalysis(standalone_score, contextual_score) ==
    /\ pc = "idle"
    /\ op' = "analyze_creativity_difference"
    /\ args' = [standalone |-> standalone_score,
                contextual |-> contextual_score]
    /\ results' = <<>>
    /\ chat_log' = <<>>
    /\ exc' = "none"
    /\ idx' = 0
    /\ IF WithinTolerance(standalone_score, contextual_score)
       THEN /\ pc' = "idle"
            /\ status' = "returned"
            /\ ret' = [results |-> <<>>,
                       analysis |-> early_return(variant, standalone_score,
                                                 contextual_score)]
       ELSE /\ pc' = "acd"
            /\ status' = "running"
            /\ ret' = NoReturn
    /\ UNCHANGED <<variant, text, parsed>>

Call_analyze_creativity_difference ==
    \E standalone_score \in ScoreArgs, creativity \in ScoreArgs \cup {None} :
        /\ EnterAnalysis(standalone_score,
                         IF creativity = None THEN standalone_score
                         ELSE creativity)
        /\ UNCHANGED server_vars

\* analyze_creativity_difference: the transport call returns.
analyze_creativity_difference ==
    /\ pc = "acd"
    /\ \E content \in AnalysisAnswers :
         \E response \in {chat(content)} :
         \E a \in {parse_analysis(variant, args.standalone, args.contextual,
                                  response)} :
             IF a.raised # "none"
             THEN Raise("analysis", "", TRUE, response, a.raised)
             ELSE Return("analysis", "", response,
                         [results |-> <<>>, analysis |-> a.value])
    /\ UNCHANGED <<variant, op, args, results, text, parsed>>
    /\ UNCHANGED server_vars

Next ==
    \/ Call_evaluate_creativity
    \/ evaluate_creativity
    \/ Call_evaluate_all_categories
    \/ evaluate_all_combined
    \/ evaluate_all_category
    \/ evaluate_all_creativity
    \/ Call_analyze_creativity_difference
    \/ analyze_creativity_difference
    \/ ChatRaises

Spec == Init /\ [][Next]_vars

(***************************************************************************)
(* The dataset tools of src/src/server.py as a state machine.  A tool call *)
(* is cut where the evaluator is: at its transport calls, and where one of *)
(* its methods hands its result back to evaluate_full_dataset.  The model  *)
(* follows the process up to its first result file.                        *)
(***************************************************************************)
evaluator_vars ==
    <<variant, pc, op, args, idx, results, chat_log, status, exc, ret, text,
      parsed>>

\* RESULTS_DIR / output_filename
output_path(output_filename) == "dataset/results/" \o output_filename

\* A cell of a result row: an int, a str or a float.
IntCell(n) == [t |-> "int", n |-> n, s |-> "", f |-> None]

StrCell(str) == [t |-> "str", n |-> 0, s |-> str, f |-> None]

FloatCell(f) == [t |-> "float", n |-> 0, s |-> "", f |-> f]

\* all_categories_results.get(key, default)
RECURSIVE dict_get(_, _, _)
dict_get(d, key, default) ==
    IF d = <<>> THEN default
    ELSE IF Head(d).category = key THEN Head(d)
    ELSE dict_get(Tail(d), key, default)

\* ", ".join(names)
RECURSIVE join(_)
join(names) ==
    IF names = <<>> THEN ""
    ELSE IF Len(names) = 1 THEN names[1]
    ELSE names[1] \o ", " \o join(Tail(names))

\* The columns "<category>_score", Creativity left out.
RECURSIVE score_columns(_)
score_columns(eval_results) ==
    IF eval_results = <<>> THEN <<>>
    ELSE IF Head(eval_results).category = "Creativity"
    THEN score_columns(Tail(eval_results))
    ELSE <<[k |-> Head(eval_results).category \o "_score",
            v |-> FloatCell(Head(eval_results).score)]>>
             \o score_columns(Tail(eval_results))

\* result_row of evaluate_full_dataset: the columns in insertion order.
result_row(i, model, standalone_creativity, eval_results, analysis) ==
    With(dict_get(eval_results, "Creativity", standalone_creativity),
         LAMBDA contextual_creativity :
        <<[k |-> "index", v |-> IntCell(i)], [k |-> "model", v |-> StrCell(model)]>>
            \o score_columns(eval_results)
            \o <<[k |-> "creativity_standalone_score",
                  v |-> FloatCell(standalone_creativity.score)],
                 [k |-> "creativity_contextual_score",
                  v |-> FloatCell(contextual_creativity.score)],
                 [k |-> "creativity_difference",
                  v |-> FloatCell(FRound1(FAbs(FSub(standalone_creativity.score,
                                                    contextual_creativity.score))))],
                 [k |-> "influential_categories",
                  v |-> StrCell(join(analysis.influential_categories))]>>)

\* The transport calls of the method that just ended, added to those of the
\* row in work.
AddCalls(calls, log) ==
    [calls EXCEPT ![Len(calls)] = @ \o [j \in 1..Len(log) |-> log[j].kind]]

Running == [NoValue EXCEPT !.tool = "evaluate_full_dataset", !.kind = "running"]

\* The top of the loop over the rows with the locals in run: row run.i is
\* taken in work, or the loop is over, the CSV is written and the tool
\* returns.
NextRowOrSave(run) ==
    IF run.i < run.total_entries
    THEN /\ full_run' = [run EXCEPT !.running = TRUE, !.stage = "standalone",
                                    !.calls = Append(run.calls, <<>>)]
         /\ tool_ret' = Running
         /\ Enter_evaluate_creativity
         /\ UNCHANGED results_file
    ELSE /\ full_run' = [run EXCEPT !.running = FALSE, !.stage = ""]
         /\ results_file' = [written |-> TRUE, path |-> run.output_path,
                             records |-> run.results]
         /\ tool_ret' = [NoValue EXCEPT !.tool = "evaluate_full_dataset",
                                        !.kind = "success",
                                        !.output_file = run.output_path,
                                        !.entries_evaluated = Len(run.results),
                                        !.total_entries = run.total_entries,
                                        !.csv_content = run.results]
         /\ UNCHANGED evaluator_vars

\* The environment replaces, removes or damages the file at DATASET_PATH.
DatasetFileChanges ==
    /\ \E f \in DatasetFiles \ {dataset_file} : dataset_file' = f
    /\ UNCHANGED <<_dataset, read_csv_calls, results_file, full_run, tool_ret>>
    /\ UNCHANGED evaluator_vars

\* read_dataset(index)
read_dataset ==
    /\ pc = "idle"
    /\ ~full_run.running
    /\ \E index \in Indexes :
         \E loaded \in {load_dataset(_dataset, dataset_file)} :
             /\ _dataset' = loaded.dataset
             /\ read_csv_calls' = read_csv_calls + loaded.read
             /\ tool_ret' = [read_dataset_value(loaded.dataset, index)
                                EXCEPT !.arg_index = index]
    /\ UNCHANGED <<dataset_file, results_file, full_run>>
    /\ UNCHANGED evaluator_vars

\* evaluate_full_dataset(output_filename) is called: up to its first
\* transport call, or to its return when it makes none.
Call_evaluate_full_dataset ==
    /\ pc = "idle"
    /\ ~full_run.running
    /\ ~results_file.written
    /\ \E output_filename \in OutputFilenames :
         \E loaded \in {load_dataset(_dataset, dataset_file)} :
             /\ _dataset' = loaded.dataset
             /\ read_csv_calls' = read_csv_calls + loaded.read
             /\ IF empty(loaded.dataset)
                THEN /\ tool_ret' = ErrorValue("evaluate_full_dataset",
                                               NotLoadedOrEmpty)
                     /\ full_run' = NoRun
                     /\ UNCHANGED results_file
                     /\ UNCHANGED evaluator_vars
                ELSE NextRowOrSave(
                         [NoRun EXCEPT !.total_entries = Len(loaded.dataset.rows),
                                       !.output_path = output_path(output_filename)])
    /\ UNCHANGED dataset_file

\* evaluate_full_dataset: evaluator.evaluate_creativity(story) has returned,
\* evaluator.evaluate_all_categories(story) is called.
evaluate_full_dataset_after_creativity ==
    /\ full_run.running
    /\ full_run.stage = "standalone"
    /\ status = "returned"
    /\ full_run' = [full_run EXCEPT !.stage = "all",
                                    !.standalone_creativity = ret.results[1],
                                    !.calls = AddCalls(@, chat_log)]
    /\ Enter_evaluate_all_categories
    /\ UNCHANGED <<_dataset, dataset_file, read_csv_calls, results_file, tool_ret>>

\* evaluate_full_dataset: evaluator.evaluate_all_categories(story) has
\* returned, evaluator.analyze_creativity_difference(...) is called.
evaluate_full_dataset_after_all_categories ==
    /\ full_run.running
    /\ full_run.stage = "all"
    /\ status = "returned"
    /\ full_run' = [full_run EXCEPT !.stage = "analysis",
                                    !.eval_results = ret.results,
                                    !.calls = AddCalls(@, chat_log)]
    /\ EnterAnalysis(full_run.standalone_creativity.score,
                     dict_get(ret.results, "Creativity",
                              full_run.standalone_creativity).score)
    /\ UNCHANGED <<_dataset, dataset_file, read_csv_calls, results_file, tool_ret>>

\* evaluate_full_dataset: evaluator.analyze_creativity_difference(...) has
\* returned; the row is appended and the loop goes on.
evaluate_full_dataset_after_analysis ==
    /\ full_run.running
    /\ full_run.stage = "analysis"
    /\ pc = "idle"
    /\ status = "returned"
    /\ NextRowOrSave(
           [full_run EXCEPT
               !.i = @ + 1,
               !.standalone_creativity = NoResult,
               !.eval_results = <<>>,
               !.calls = AddCalls(@, chat_log),
               !.results = Append(@,
                   result_row(full_run.i, _dataset.rows[full_run.i + 1].model,
                              full_run.standalone_creativity,
                              full_run.eval_results, ret.analysis))])
    /\ UNCHANGED <<_dataset, dataset_file, read_csv_calls>>

\* evaluate_full_dataset saving the rows it has when an exception leaves the
\* evaluator.
evaluate_full_dataset_raises_saving ==
    /\ full_run.running
    /\ pc = "idle"
    /\ status = "raised"
    /\ full_run' = [NoRun EXCEPT !.i = full_run.i,
                                 !.total_entries = full_run.total_entries,
                                 !.calls = AddCalls(full_run.calls, chat_log)]
    /\ results_file' = [written |-> TRUE, path |-> full_run.output_path,
                        records |-> full_run.results]
    /\ tool_ret' = [RaisedValue("evaluate_full_dataset", exc)
                       EXCEPT !.entries_evaluated = Len(full_run.results),
                              !.csv_content = full_run.results]
    /\ UNCHANGED <<_dataset, dataset_file, read_csv_calls>>
    /\ UNCHANGED evaluator_vars

\* evaluate_full_dataset: an exception left the evaluator; nothing catches
\* it, the tool call ends with it.
evaluate_full_dataset_raises ==
    /\ full_run.running
    /\ pc = "idle"
    /\ status = "raised"
    /\ full_run' = [NoRun EXCEPT !.i = full_run.i,
                                 !.total_entries = full_run.total_entries,
                                 !.calls = AddCalls(full_run.calls, chat_log)]
    /\ tool_ret' = RaisedValue("evaluate_full_dataset", exc)
    /\ UNCHANGED <<_dataset, dataset_file, read_csv_calls, results_file>>
    /\ UNCHANGED evaluator_vars

ServerInit ==
    /\ variant = "v20"
    /\ pc = "idle"
    /\ op = "none"
    /\ args = NoArgs
    /\ idx = 0
    /\ results = <<>>
    /\ chat_log = <<>>
    /\ status = "returned"
    /\ exc = "none"
    /\ ret = NoReturn
    /\ text = ""
    /\ parsed = NotParsed
    /\ _dataset = NotLoaded
    /\ dataset_file \in DatasetFiles
    /\ read_csv_calls = 0
    /\ results_file = NoFile
    /\ full_run = NoRun
    /\ tool_ret = NoValue

ServerNext ==
    \/ DatasetFileChanges
    \/ read_dataset
    \/ Call_evaluate_full_dataset
    \/ evaluate_creativity
    \/ evaluate_full_dataset_after_creativity
    \/ evaluate_all_combined
    \/ evaluate_all_category
    \/ evaluate_all_creativity
    \/ evaluate_full_dataset_after_all_categories
    \/ analyze_creativity_difference
    \/ evaluate_full_dataset_after_analysis
    \/ ChatRaises
    \/ evaluate_full_dataset_raises

ServerSpec == ServerInit /\ [][ServerNext]_vars

(***************************************************************************)
(* parse_response alone, applied to one response text.                     *)
(***************************************************************************)
\* A score s of a structured response: the JSON literal and the float it
\* denotes.
ScoreCases ==
    { [lit |-> "0", val |-> Fin(0)],
      [lit |-> "1", val |-> Fin(100)],
      [lit |-> "7.5", val |-> Fin(750)],
      [lit |-> "10", val |-> Fin(1000)],
      [lit |-> "15.5", val |-> Fin(1550)],
      [lit |-> "20", val |-> Fin(2000)],
      [lit |-> "25", val |-> Fin(2500)] }

\* An explanation e of a structured response, and e without the whitespace
\* at its ends.
ExplanationCases ==
    { [raw |-> "clear", stripped |-> "clear"],
      [raw |-> " vivid ", stripped |-> "vivid"],
      [raw |-> "two words", stripped |-> "two words"],
      [raw |-> "scored 3 of 5 ", stripped |-> "scored 3 of 5"],
      [raw |-> "", stripped |-> ""] }

\* The response {"score": s, "explanation": e}
StructuredResponse(s, e) ==
    "{\"score\": " \o s.lit \o ", \"explanation\": \"" \o e.raw \o "\"}"

\* JSON objects without the key "score".
NoScoreObjects ==
    { "{\"explanation\": \"about 8 out of 10\"}",
      "{\"rating\": 8}",
      "{\"Score\": 12.5, \"explanation\": \"solid\"}",
      "{\"explanation\": \"no digits\"}",
      "{}" }

\* Texts that are not JSON: the text scan decides.
ScanTexts ==
    { "Score: 12.5",
      "Score: 100",
      "Score: 10.1",
      "Score: 9.5",
      "Rated 25.5 overall",
      "Rated 25 overall",
      "Rated 20.5 overall",
      "Rated 18 overall",
      "Draft 12 earns a 2",
      "Page 30: a 3 at best",
      "7/10 - uneven but lively" }

ParseTexts ==
    {StructuredResponse(s, e) : s \in ScoreCases, e \in ExplanationCases}
        \cup NoScoreObjects
        \cup ScanTexts
        \cup {chat(content) : content \in ScoreContents}

InitParse ==
    /\ variant \in Variants
    /\ text \in ParseTexts
    /\ parsed = NotParsed
    /\ pc = "idle"
    /\ op = "none"
    /\ args = NoArgs
    /\ idx = 0
    /\ results = <<>>
    /\ chat_log = <<>>
    /\ status = "returned"
    /\ exc = "none"
    /\ ret = NoReturn
    /\ _dataset = NotLoaded
    /\ dataset_file = MissingFile
    /\ read_csv_calls = 0
    /\ results_file = NoFile
    /\ full_run = NoRun
    /\ tool_ret = NoValue

\* parse_response(text) is called.
ApplyParse ==
    /\ parsed = NotParsed
    /\ parsed' = parse_response(variant, text)
    /\ UNCHANGED <<variant, pc, op, args, idx, results, chat_log, status, exc, ret,
                   text>>
    /\ UNCHANGED server_vars

ParseSpec == InitParse /\ [][ApplyParse]_vars

(***************************************************************************)
(* The claims.                                                             *)
(***************************************************************************)
\* The results the operation holds or has returned.
StoredResults == Range(results) \cup Range(ret.results)

\* The successful scoring calls of the operation: one category each.
ScoringCalls ==
    {e \in Range(chat_log) :
        e.ok /\ e.kind \in {"standalone", "category", "creativity"}}

\* parse_response finds no score in the reply, and does not raise.
AbsentScore(reply) ==
    /\ parse_response(variant, reply).raised = "none"
    /\ parse_response(variant, reply).score = None

\* parse_response extracts a score from the reply.
ExtractedScore(reply) ==
    /\ parse_response(variant, reply).raised = "none"
    /\ parse_response(variant, reply).score # None

\* lo <= score <= hi, in hundredths; NaN and the infinities are in no interval.
Within(score, lo, hi) == score.k = "fin" /\ lo <= score.v /\ score.v <= hi

\* C1: whatever texts the transport returns, evaluate_all_categories ends
\* normally: when it raises, a transport failure is the cause.
C1_OnlyTransportFailureRaises ==
    (op = "evaluate_all_categories" /\ status = "raised") => exc = "TransportError"

\* C2: a result stored for a reply in which parse_response finds no score
\* carries the minimum of the variant's interval: 1 in the 1-10 variant, 0
\* in the 0-20 variant.
C2_AbsentScoreStoresMinimum ==
    \A e \in ScoringCalls : \A r \in StoredResults :
        (e.about = r.category /\ AbsentScore(e.reply))
            => r.score = (IF variant = "v10" THEN Fin(100) ELSE Fin(0))

\* C3: a transport call that fails is the last call of its operation, which
\* ends in failure with the transport's exception and returns nothing.
C3_TransportFailureEndsOperation ==
    \A i \in 1..Len(chat_log) :
        ~chat_log[i].ok =>
            /\ i = Len(chat_log)
            /\ pc = "idle"
            /\ status = "raised"
            /\ exc = "TransportError"
            /\ ret = NoReturn

\* evaluate_all_categories had stored a result when a later call failed.
C3_Witness ==
    /\ op = "evaluate_all_categories"
    /\ Len(chat_log) >= 2
    /\ ~chat_log[Len(chat_log)].ok
    /\ results # <<>>
    /\ status = "raised"
    /\ ret = NoReturn

\* The two scores of the call differ by less than 0.1.
C4_ScoresWithinTenth ==
    /\ args.standalone.k = "fin"
    /\ args.contextual.k = "fin"
    /\ args.standalone.v - args.contextual.v < 10
    /\ args.contextual.v - args.standalone.v < 10

C5_Listed(reply) ==
    LET data == json_loads(reply)
        listed == PyGet(data.v, "influential_categories", JList(<<>>)).v
    IN  IF data.ok /\ data.v.t = "obj" /\ listed.t = "list" THEN listed.items
        ELSE <<>>

C5_InVocabulary(item) ==
    item.t = "str" /\ item.s \in Range(STORY_EVALUATION_CATEGORIES(variant))

\* C5: every name of the returned influential_categories is a category of
\* STORY_EVALUATION_CATEGORIES, and the returned names are the listed names
\* of the vocabulary in the order the reply lists them.
C5_InfluentialFromVocabularyInOrder ==
    (op = "analyze_creativity_difference" /\ status = "returned" /\ chat_log # <<>>) =>
        LET names == ret.analysis.influential_categories
            kept == SelectSeq(C5_Listed(chat_log[1].reply), C5_InVocabulary)
        IN  /\ \A i \in 1..Len(names) :
                  names[i] \in Range(STORY_EVALUATION_CATEGORIES(variant))
            /\ C5_Listed(chat_log[1].reply) # <<>> =>
                  names = [i \in 1..Len(kept) |-> kept[i].s]

\* A reply that lists names outside the vocabulary among names of it: some
\* are dropped, two or more are kept.
C5_Witness ==
    /\ op = "analyze_creativity_difference"
    /\ status = "returned"
    /\ chat_log # <<>>
    /\ Len(ret.analysis.influential_categories) >= 2
    /\ Len(C5_Listed(chat_log[1].reply)) > Len(ret.analysis.influential_categories)

\* The reply is a JSON object with a list under "influential_categories".
C6_Conforming(reply) ==
    LET data == json_loads(reply)
    IN  /\ data.ok
        /\ data.v.t = "obj"
        /\ HasKey(data.v.items, "influential_categories")
        /\ LastValue(data.v.items, "influential_categories", JNull).t = "list"

\* C6: for a reply of any other shape analyze_creativity_difference returns
\* normally, with no influential category and with the reply's text in its
\* result.
C6_OtherShapesDegrade ==
    (/\ op = "analyze_creativity_difference"
     /\ pc = "idle"
     /\ chat_log # <<>>
     /\ chat_log[1].ok
     /\ ~C6_Conforming(chat_log[1].reply)) =>
        /\ status = "returned"
        /\ ret.analysis.influential_categories = <<>>
        /\ ret.analysis.analysis = JStr(chat_log[1].reply)

\* s lies in the valid interval of the variant.
C7_InInterval(s) ==
    IF variant = "v10" THEN Within(s.val, 100, 1000) ELSE Within(s.val, 0, 2000)

\* C7 as stated: for the response {"score": s, "explanation": e} with s in
\* the interval, parse_response returns s and, in the variant that returns
\* an explanation, e exactly as given.
C7_ExplanationUnchanged ==
    \A s \in ScoreCases : \A e \in ExplanationCases :
        (text = StructuredResponse(s, e) /\ parsed # NotParsed /\ C7_InInterval(s)) =>
            /\ parsed.raised = "none"
            /\ parsed.score = s.val
            /\ variant = "v10" => parsed.explanation = e.raw

\* C7 amended: parse_response returns s and, in the variant that returns an
\* explanation, e without the whitespace at its ends.
C7_ExplanationStripped ==
    \A s \in ScoreCases : \A e \in ExplanationCases :
        (text = StructuredResponse(s, e) /\ parsed # NotParsed /\ C7_InInterval(s)) =>
            /\ parsed.raised = "none"
            /\ parsed.score = s.val
            /\ variant = "v10" => parsed.explanation = e.stripped

\* {"score": 7.5, "explanation": " vivid "} parsed by the 1-10 variant.
C7_Witness ==
    /\ variant = "v10"
    /\ text = "{\"score\": 7.5, \"explanation\": \" vivid \"}"
    /\ parsed = Parsed(Fin(750), "vivid")

\* text is a JSON object without the key "score".
C8_ObjectWithoutScore ==
    LET data == json_loads(text)
    IN  data.ok /\ data.v.t = "obj" /\ ~HasKey(data.v.items, "score")

\* C8 as stated: for a JSON object without the key "score" whose text holds
\* a match of the numeric pattern, the score parse_response returns is the
\* first match, not absent.
C8_ScanAfterMissingKey ==
    (/\ parsed # NotParsed
     /\ C8_ObjectWithoutScore
     /\ re_search(variant, text).found) =>
        /\ parsed.raised = "none"
        /\ parsed.score # None
        /\ parsed.score =
               PyFloatOfStr(slice(text, re_search(variant, text).start,
                                  re_search(variant, text).end - 1)).f

\* C8 amended: for a JSON object without the key "score" parse_response
\* returns an absent score, whatever its text holds.
C8_MissingKeyIsAbsent ==
    (parsed # NotParsed /\ C8_ObjectWithoutScore) =>
        /\ parsed.raised = "none"
        /\ parsed.score = None

\* {"explanation": "about 8 out of 10"}: the text holds a match, the score is
\* absent.
C8_Witness ==
    /\ text = "{\"explanation\": \"about 8 out of 10\"}"
    /\ re_search(variant, text).found
    /\ parsed # NotParsed
    /\ parsed.score = None

\* C9: in the 1-10 variant every stored score that parse_response extracted
\* from a reply lies in [1, 10].
C9_ExtractedScoresInOneToTen ==
    variant = "v10" =>
        \A e \in ScoringCalls : \A r \in StoredResults :
            (e.about = r.category /\ ExtractedScore(e.reply))
                => Within(r.score, 100, 1000)

\* C10: in the 0-20 variant every stored score lies in [0, 20].
C10_ScoresInZeroToTwenty ==
    variant = "v20" => \A r \in StoredResults : Within(r.score, 0, 2000)

RECURSIVE C11_FirstDigit(_, _)
\* The index of the first digit of s at or after i, 0 when there is none.
C11_FirstDigit(s, i) ==
    IF i > Len(s) THEN 0
    ELSE IF IsDigit(Ch(s, i)) THEN i
    ELSE C11_FirstDigit(s, i + 1)

\* The index after the numeric literal that starts at i: digits, then an
\* optional point with digits.
C11_LiteralEnd(s, i) ==
    With(DigitsEnd(s, i), LAMBDA intEnd :
        IF /\ intEnd + 1 <= Len(s)
           /\ Ch(s, intEnd) = "."
           /\ IsDigit(Ch(s, intEnd + 1))
        THEN DigitsEnd(s, intEnd + 1)
        ELSE intEnd)

\* text is not JSON and holds one numeric literal, whose value is above the
\* maximum of the variant's interval.
C11_OnlyLiteralAboveMaximum ==
    With(strip(text), LAMBDA response :
    With(C11_FirstDigit(response, 1), LAMBDA first :
    With(C11_LiteralEnd(response, first), LAMBDA end :
        /\ ~json_loads(response).ok
        /\ first # 0
        /\ C11_FirstDigit(response, end) = 0
        /\ PyFloatOfStr(slice(response, first, end - 1)).f.v
               > (IF variant = "v10" THEN 1000 ELSE 2000))))

\* C11: for a text that is not JSON and whose only numeric literal is above
\* the maximum of the interval, parse_response returns an absent score: no
\* fragment of the literal becomes the score.
C11_AboveMaximumIsAbsent ==
    (parsed # NotParsed /\ C11_OnlyLiteralAboveMaximum) =>
        /\ parsed.raised = "none"
        /\ parsed.score = None

\* The text scan of the 1-10 variant found a match in text.
C17_ScanMatched ==
    /\ variant = "v10"
    /\ parsed # NotParsed
    /\ ~json_loads(strip(text)).ok
    /\ re_search("v10", strip(text)).found

\* C17: in the 1-10 variant, when the text scan matches, the explanation is
\* the trimmed response without the characters at the position of the match,
\* every other character kept, then trimmed.
C17_MatchedOccurrenceRemoved ==
    C17_ScanMatched =>
        With(strip(text), LAMBDA response :
        With(re_search("v10", response), LAMBDA match :
            parsed.explanation =
                strip(slice(response, 1, match.start - 1)
                        \o slice(response, match.end, Len(response)))))

RECURSIVE C18_FirstFuzzyKey(_, _)
\* The first key of scores.items() that matches category, as a one-element
\* tuple; <<>> when no key matches.
C18_FirstFuzzyKey(pairs, category) ==
    IF pairs = <<>> THEN <<>>
    ELSE IF FuzzyMatch(category, Head(pairs).k) THEN <<Head(pairs).k>>
    ELSE C18_FirstFuzzyKey(Tail(pairs), category)

\* The scores object of a combined reply; an object without keys when the
\* reply has none.
C18_Scores(reply) ==
    With(json_loads(StripFences(reply)), LAMBDA payload :
        IF payload.ok /\ payload.v.t = "obj"
              /\ LastValue(payload.v.items, "scores", JNull).t = "obj"
        THEN LastValue(payload.v.items, "scores", JNull)
        ELSE JObj(<<>>))

\* category has no exact key in scores, and the partial match gives it the
\* value of key.
C18_ScoredFrom(scores, category, key) ==
    /\ LastValue(scores.items, category, JNull) = JNull
    /\ C18_FirstFuzzyKey(DictPairs(scores.items, scores.items), category) = <<key>>
    /\ FirstFuzzy(DictPairs(scores.items, scores.items), category) # JNull

\* C18: no key of the scores object of a combined reply supplies the score
\* of two distinct categories through the partial match.
C18_OneKeyOneCategory ==
    \A e \in Range(chat_log) :
        (e.ok /\ e.kind = "combined") =>
            \A c1, c2 \in Range(STORY_EVALUATION_CATEGORIES_20) :
                \A pair \in Range(C18_Scores(e.reply).items) :
                    (/\ c1 # c2
                     /\ C18_ScoredFrom(C18_Scores(e.reply), c1, pair.k)
                     /\ C18_ScoredFrom(C18_Scores(e.reply), c2, pair.k)) =>
                        ~(\E r1, r2 \in Range(results) :
                              /\ r1.category = c1
                              /\ r2.category = c2
                              /\ r1.score = CombinedScore(pair.v)
                              /\ r2.score = CombinedScore(pair.v))

\* C12: pd.read_csv is called at most once; the first load_dataset() fixes
\* _dataset to the rows of the file, or to no rows when the file is missing
\* or unreadable; _dataset never changes afterwards, whatever the file
\* becomes; and with an empty _dataset every dataset tool call gives the
\* error value "Dataset is not loaded or is empty".
C12_LoadedOnceAndCached ==
    [][/\ read_csv_calls' <= 1
       /\ _dataset # NotLoaded => _dataset' = _dataset
       /\ (_dataset = NotLoaded /\ _dataset' # NotLoaded) =>
              _dataset' = DataFrame(IF dataset_file.exists /\ dataset_file.readable
                                    THEN dataset_file.rows ELSE <<>>)
       /\ (tool_ret' # tool_ret /\ _dataset'.rows = <<>>) =>
              /\ tool_ret'.kind = "error"
              /\ tool_ret'.error = "Dataset is not loaded or is empty"]_vars

\* The first load found no usable file, the file has rows now, and a later
\* tool call gave the error value.
C12_Witness ==
    /\ _dataset = DataFrame(<<>>)
    /\ dataset_file = CsvFile(DatasetRows)
    /\ tool_ret.tool = "read_dataset"
    /\ tool_ret.kind = "error"
    /\ tool_ret.error = "Dataset is not loaded or is empty"

\* C13: evaluate_full_dataset on an empty or unloaded dataset gives the error
\* value, raises nothing, makes no transport call and writes no result file.
C13_EmptyDatasetIsAnError ==
    (/\ tool_ret.tool = "evaluate_full_dataset"
     /\ _dataset # NotLoaded
     /\ _dataset.rows = <<>>) =>
        /\ tool_ret.kind = "error"
        /\ tool_ret.error = "Dataset is not loaded or is empty"
        /\ ~full_run.running
        /\ pc = "idle"
        /\ chat_log = <<>>
        /\ full_run.calls = <<>>
        /\ ~results_file.written

\* evaluate_full_dataset was called with a file that pd.read_csv refuses.
C13_Witness ==
    /\ tool_ret = ErrorValue("evaluate_full_dataset", NotLoadedOrEmpty)
    /\ _dataset = DataFrame(<<>>)
    /\ read_csv_calls = 1
    /\ ~results_file.written

\* C14: on a loaded dataset with rows, read_dataset(index) gives the
\* out-of-range error value for index < 0 and for index >= total_entries,
\* and for every other index the model and response of the row at index
\* with total_entries; it raises nothing.
C14_RowAtIndexOrOutOfRange ==
    (tool_ret.tool = "read_dataset" /\ _dataset.rows # <<>>) =>
        LET total == Len(_dataset.rows)
            index == tool_ret.arg_index
        IN  IF index < 0 \/ index >= total
            THEN /\ tool_ret.kind = "error"
                 /\ tool_ret.error =
                        "Index " \o IntStr(index) \o " out of range. Dataset has "
                            \o IntStr(total) \o " entries (valid range: 0-"
                            \o IntStr(total - 1) \o ")."
            ELSE /\ tool_ret.kind = "row"
                 /\ tool_ret.index = index
                 /\ tool_ret.model = _dataset.rows[index + 1].model
                 /\ tool_ret.response = _dataset.rows[index + 1].response
                 /\ tool_ret.total_entries = total

\* read_dataset(2) on the dataset of two rows: one past the last row.
C14_Witness ==
    /\ _dataset = DataFrame(DatasetRows)
    /\ tool_ret.tool = "read_dataset"
    /\ tool_ret.arg_index = Len(DatasetRows)
    /\ tool_ret.kind = "error"

\* The kinds of the transport calls of one evaluate_all_categories call
\* that got a combined response it could decode, and of one that could not.
C15_BatchedCalls == <<"combined", "creativity">>

C15_FallbackCalls ==
    <<"combined">>
        \o [j \in 1..Len(STORY_EVALUATION_CATEGORIES_20) |-> "category"]
        \o <<"creativity">>

C15_Kinds(log) == [j \in 1..Len(log) |-> log[j].kind]

\* C15 as stated: in the 0-20 variant every evaluate_all_categories call
\* that returns has made exactly two transport calls, one combined and one
\* creativity call, and every row evaluate_full_dataset has finished took
\* three transport calls plus at most one analysis call.
C15_TwoCallsForEveryResponse ==
    /\ (variant = "v20" /\ op = "evaluate_all_categories" /\ status = "returned")
           => C15_Kinds(chat_log) = C15_BatchedCalls
    /\ \A j \in 1..full_run.i :
           full_run.calls[j] \in
               {<<"standalone">> \o C15_BatchedCalls,
                <<"standalone">> \o C15_BatchedCalls \o <<"analysis">>}

\* C15 amended: in the 0-20 variant an evaluate_all_categories call that
\* returns has made exactly two transport calls (combined, creativity) when
\* the combined response, its code fences removed, is JSON, and otherwise
\* the combined call, one call per category and the creativity call; every
\* row evaluate_full_dataset has finished took the standalone call, the
\* calls of one of these two shapes, and at most one analysis call.
C15_TwoCallsOrFallback ==
    /\ (variant = "v20" /\ op = "evaluate_all_categories" /\ status = "returned")
           => C15_Kinds(chat_log) =
                  IF json_loads(StripFences(chat_log[1].reply)).ok
                  THEN C15_BatchedCalls ELSE C15_FallbackCalls
    /\ \A j \in 1..full_run.i :
           full_run.calls[j] \in
               {<<"standalone">> \o C15_BatchedCalls,
                <<"standalone">> \o C15_BatchedCalls \o <<"analysis">>,
                <<"standalone">> \o C15_FallbackCalls,
                <<"standalone">> \o C15_FallbackCalls \o <<"analysis">>}

\* evaluate_full_dataset has succeeded on two rows, the first evaluated
\* with two calls of evaluate_all_categories and the second by the
\* fallback.
C15_Witness ==
    /\ tool_ret.tool = "evaluate_full_dataset"
    /\ tool_ret.kind = "success"
    /\ full_run.i = 2
    /\ SubSeq(full_run.calls[1], 2, 3) = C15_BatchedCalls
    /\ Len(full_run.calls[2]) > Len(C15_FallbackCalls)
    /\ SubSeq(full_run.calls[2], 2, Len(C15_FallbackCalls) + 1) = C15_FallbackCalls

\* The keys of a mapping and the names of the columns of a record, in
\* insertion order.
C16_Keys(d) == [j \in 1..Len(d) |-> d[j].category]

C16_ColumnNames(row) == [j \in 1..Len(row) |-> row[j].k]

C16_ScoreColumnNames(categories) ==
    [j \in 1..Len(categories) |-> categories[j] \o "_score"]

\* C16: whenever evaluate_all_categories returns, in either variant and on
\* every path, the keys of the returned mapping are, in insertion order,
\* the fixed category list followed by "Creativity" (each value filed under
\* its own category field); and the record evaluate_full_dataset builds
\* from such a mapping has the columns index and model, one
\* "<category>_score" column per category of the list, and the four
\* creativity columns: the same columns for every row.
C16_KeysAreCategoriesThenCreativity ==
    (op = "evaluate_all_categories" /\ status = "returned") =>
        /\ C16_Keys(ret.results) =
               STORY_EVALUATION_CATEGORIES(variant) \o <<"Creativity">>
        /\ variant = "v20" =>
               C16_ColumnNames(result_row(0, "", ret.results[Len(ret.results)],
                                          ret.results, NoAnalysis)) =
                   <<"index", "model">>
                       \o C16_ScoreColumnNames(STORY_EVALUATION_CATEGORIES_20)
                       \o <<"creativity_standalone_score",
                            "creativity_contextual_score",
                            "creativity_difference", "influential_categories">>

\* evaluate_all_categories of the 0-20 variant has returned by way of the
\* per-category calls that answer a combined response that is not JSON.
C16_Witness ==
    /\ variant = "v20"
    /\ op = "evaluate_all_categories"
    /\ status = "returned"
    /\ Len(chat_log) = Len(STORY_EVALUATION_CATEGORIES_20) + 2
    /\ Len(ret.results) = Len(STORY_EVALUATION_CATEGORIES_20) + 1

\* The records are those of the rows of the dataset in index order: record
\* number j has index j - 1 and the model of row j - 1.
C19_InDatasetOrder(records) ==
    /\ Len(records) = Len(_dataset.rows)
    /\ \A j \in 1..Len(records) :
           /\ records[j][1] = [k |-> "index", v |-> IntCell(j - 1)]
           /\ records[j][2] = [k |-> "model", v |-> StrCell(_dataset.rows[j].model)]

\* C19: evaluate_full_dataset writes its result file only after every row
\* of the dataset has been evaluated: while it runs there is no file; when
\* a transport call (or anything else the evaluator raises) fails in any
\* row, no file is written and no record is returned; when it succeeds,
\* entries_evaluated equals total_entries and the records written and
\* returned are those of the rows 0..total_entries-1 in that order.
C19_AllOrNothing ==
    /\ full_run.running => ~results_file.written
    /\ (tool_ret.tool = "evaluate_full_dataset" /\ tool_ret.kind = "raised") =>
           /\ ~results_file.written
           /\ tool_ret.csv_content = <<>>
           /\ tool_ret.entries_evaluated = 0
    /\ results_file.written => C19_InDatasetOrder(results_file.records)
    /\ (tool_ret.tool = "evaluate_full_dataset" /\ tool_ret.kind = "success") =>
           /\ results_file.written
           /\ tool_ret.entries_evaluated = tool_ret.total_entries
           /\ tool_ret.total_entries = Len(_dataset.rows)
           /\ tool_ret.csv_content = results_file.records
           /\ C19_InDatasetOrder(tool_ret.csv_content)

\* A transport call failed in the second row, the first row evaluated in
\* full: the tool call ended with the exception and there is no file.
C19_Witness ==
    /\ tool_ret.tool = "evaluate_full_dataset"
    /\ tool_ret.kind = "raised"
    /\ tool_ret.exc = "TransportError"
    /\ full_run.i = 1
    /\ full_run.total_entries = 2
    /\ ~results_file.written

=============================================================================
